---- MODULE Spec2Model ----
(***************************************************************************)
(* conceptnet-lite: the two-pass loader of a ConceptNet dump into the      *)
(* relational store (conceptnet_lite/db.py, load_dump_to_db).              *)
(*                                                                         *)
(* Strings are sequences of one-character strings, so that slicing,        *)
(* splitting and case conversion are computed as the code computes them.   *)
(***************************************************************************)
EXTENDS Integers, Sequences, FiniteSets, TLC

\* ------------------------------------------------------------------ bounds
\* Longest dump (rows) the model enumerates.
MaxRows == 3
\* Largest transaction size (edge_count_per_insert) the model enumerates.
MaxBatch == 2

\* ------------------------------------------------------------- characters
UPPER == <<"A","B","C","D","E","F","G","H","I","J","K","L","M",
           "N","O","P","Q","R","S","T","U","V","W","X","Y","Z">>
LOWER == <<"a","b","c","d","e","f","g","h","i","j","k","l","m",
           "n","o","p","q","r","s","t","u","v","w","x","y","z">>
DIGIT == <<"0","1","2","3","4","5","6","7","8","9">>

Range(s) == {s[i] : i \in DOMAIN s}
IsUpper(c) == c \in Range(UPPER)
IsLower(c) == c \in Range(LOWER)
IsDigit(c) == c \in Range(DIGIT)

\* str.lower() on one character
lower(c) ==
    IF IsUpper(c) THEN LOWER[CHOOSE i \in DOMAIN UPPER : UPPER[i] = c] ELSE c

\* The regex of _to_snake_case matches the upper-case letter at position i when
\* it follows [a-z0-9], or when it is not at the start and precedes [a-z].
SnakeMatch(s, i) ==
    /\ IsUpper(s[i])
    /\ \/ (i > 1 /\ (IsLower(s[i-1]) \/ IsDigit(s[i-1])))
       \/ (i > 1 /\ i < Len(s) /\ IsLower(s[i+1]))

RECURSIVE SnakeFrom(_, _)
SnakeFrom(s, i) ==
    IF i > Len(s) THEN <<>>
    ELSE (IF SnakeMatch(s, i) THEN <<"_", lower(s[i])>> ELSE <<lower(s[i])>>)
         \o SnakeFrom(s, i + 1)

\* utils._to_snake_case: regex.sub(r'_\1', s).lower()
to_snake_case(s) == SnakeFrom(s, 1)

\* Python slice s[k:] with k >= 0 (0-based k)
SliceFrom(s, k) == IF k >= Len(s) THEN <<>> ELSE SubSeq(s, k + 1, Len(s))

\* Python slice l[a:b] with 0 <= a <= b (0-based, b exclusive)
Slice(l, a, b) ==
    IF a >= Len(l) THEN <<>>
    ELSE SubSeq(l, a + 1, IF b > Len(l) THEN Len(l) ELSE b)

\* str.split(sep, maxsplit): cur is the piece being read, i the next position
RECURSIVE SplitFrom(_, _, _, _, _)
SplitFrom(s, sep, maxsplit, i, cur) ==
    IF i > Len(s) THEN <<cur>>
    ELSE IF maxsplit = 0 THEN <<cur \o SubSeq(s, i, Len(s))>>
    ELSE IF s[i] = sep THEN <<cur>> \o SplitFrom(s, sep, maxsplit - 1, i + 1, <<>>)
    ELSE SplitFrom(s, sep, maxsplit, i + 1, Append(cur, s[i]))

split(s, sep, maxsplit) == SplitFrom(s, sep, maxsplit, 1, <<>>)

\* ------------------------------------------------------- identifier parsing
extract_relation_name(uri) == to_snake_case(SliceFrom(uri, 3))

\* relation_in_bytes: the canonical relation key
relation_in_bytes(relation_uri) == extract_relation_name(relation_uri)

\* concept_uri.split('/', maxsplit=4)[2:4]  (then tuple(...)[:2])
language_and_label_parts(concept_uri) ==
    Slice(Slice(split(concept_uri, "/", 4), 2, 4), 0, 2)

\* `language_b, label_b = ...` raises ValueError unless exactly two parts
ConceptParses(uri) == Len(language_and_label_parts(uri)) = 2

language_b(uri) == language_and_label_parts(uri)[1]
label_b(uri) == language_and_label_parts(uri)[2]
label_language_b(uri) == label_b(uri) \o <<"/">> \o language_b(uri)
concept_b(uri) == uri

\* sense_label = '' if len(split_uri) == 4 else split_uri[4]
sense_label(uri) ==
    LET split_uri == split(uri, "/", 4)
    IN  IF Len(split_uri) = 4 THEN <<>> ELSE split_uri[5]

\* ------------------------------------------------------------------ inputs
R_IsA    == <<"/","r","/","I","s","A">>
R_is_a   == <<"/","r","/","i","s","_","a">>
R_PartOf == <<"/","r","/","P","a","r","t","O","f">>

C_en_a   == <<"/","c","/","e","n","/","a">>
C_en_a_n == <<"/","c","/","e","n","/","a","/","n">>
C_en_a_  == <<"/","c","/","e","n","/","a","/">>
X_en_a   == <<"/","x","/","e","n","/","a">>
C_en_b   == <<"/","c","/","e","n","/","b">>
C_fr_a   == <<"/","c","/","f","r","/","a">>
C_en     == <<"/","c","/","e","n">>

\* A row is row[1:5] of a dump line without its metadata column, which no
\* decision of the loader reads.
Row(r, s, e) == [relation_uri |-> r, start_uri |-> s, end_uri |-> e]

RowPool ==
    { Row(R_IsA,    C_en_a,   C_en_b),
      Row(R_is_a,   C_en_a_n, C_fr_a),
      Row(R_PartOf, X_en_a,   C_en_a_),
      Row(R_IsA,    C_en,     C_en_a) }

RECURSIVE SeqsUpTo(_, _)
SeqsUpTo(S, n) ==
    IF n = 0 THEN {<<>>}
    ELSE LET shorter == SeqsUpTo(S, n - 1)
         IN  shorter \cup {Append(q, x) : q \in {t \in shorter : Len(t) = n - 1}, x \in S}

Dumps == SeqsUpTo(RowPool, MaxRows)

\* ------------------------------------------------------------------- state
VARIABLES
    dump,            \* rows of the file at dump_path
    dump_is_file,    \* dump_path.is_file()
    edge_count,      \* argument edge_count (the row cap)
    delete_dump,     \* argument delete_dump
    edge_count_per_insert, \* rows per db.atomic() block
    pc,              \* position of control in load_dump_to_db
    error,           \* the exception that is propagating: its kind and the
                     \* position that raised it, or NoError
    lmdb_dir,        \* the directory lmdb_db_path exists on disk
    dbs_opened,      \* how many of the four env.open_db calls returned
    index,           \* the four named lmdb databases: key -> id
    norm_i,          \* normalize(): relation_i, language_i, label_i, concept_i
    norm_pos,        \* rows the reader of normalize() has yielded
    tables_created,  \* _open_db created the tables of the store
    store,           \* the tables as the open connection sees them
    committed,       \* the tables as last committed
    ins_i,           \* insert(): relation_i, language_i, label_i, concept_i, edge_i
    ins_pos,         \* rows the reader of insert() has yielded
    finished,        \* insert(): finished
    batch_no,        \* db.atomic() blocks entered so far
    batch_n,         \* rows inserted in the current db.atomic() block
    first_result,    \* the tables an earlier call over the same dump ended with
    prep,            \* prepare_db: its arguments, the files it sees, its position
    query            \* a query of the read side: its arguments and its result

vars == <<dump, dump_is_file, edge_count, delete_dump, edge_count_per_insert,
          pc, error, lmdb_dir, dbs_opened, index, norm_i, norm_pos,
          tables_created, store, committed, ins_i, ins_pos, finished,
          batch_no, batch_n, first_result, prep, query>>

inputs == <<dump, edge_count, delete_dump, edge_count_per_insert, first_result,
            prep, query>>
normState == <<index, norm_i, norm_pos>>
insState == <<tables_created, store, committed, ins_i, ins_pos, finished,
              batch_no, batch_n>>

EmptyMap == [k \in {} |-> 0]
EmptyIndex == [relation |-> EmptyMap, language |-> EmptyMap,
               label |-> EmptyMap, concept |-> EmptyMap]
EmptyStore == [relation |-> <<>>, language |-> <<>>, label |-> <<>>,
               concept |-> <<>>, edge |-> <<>>]

\* the generator with the cap tested after the yield instead of before it
HasNextCheckedAfterYield(rows, count, pos) ==
    pos < Len(rows) /\ (pos = 0 \/ pos - 1 # count)

\* edges_from_dump_by_parts_generator(count): is there a row after `pos` rows?
HasNext(rows, count, pos) == pos < Len(rows) /\ pos # count

\* ------------------------------------------------------------ Dedup Index
\* txn.get(key, db=...): the stored id, or None (no id is 0: ids start at 1)
None == 0
Get(db, key) == IF key \in DOMAIN db THEN db[key] ELSE None
\* txn.put(key, pack_ints(id), db=...)
Put(db, key, id) == (key :> id) @@ db

\* --------------------------------------------------------------- normalize
\* The state of normalize() is n = [index, i]: the four databases and the four
\* counters language_i, relation_i, label_i, concept_i.
\* normalize_relation with `relation_i += 1` moved out of the `if`
normalize_relation_always_counts(n, relation_uri) ==
    LET relation_b == relation_in_bytes(relation_uri)
        relation_exists == Get(n.index.relation, relation_b) # None
    IN  IF ~relation_exists
        THEN [index |-> [n.index EXCEPT
                           !.relation = Put(@, relation_b, n.i.relation + 1)],
              i |-> [n.i EXCEPT !.relation = @ + 1]]
        ELSE [n EXCEPT !.i.relation = @ + 1]

normalize_relation(n, relation_uri) ==
    LET relation_b == relation_in_bytes(relation_uri)
        relation_exists == Get(n.index.relation, relation_b) # None
    IN  IF ~relation_exists
        THEN [index |-> [n.index EXCEPT
                           !.relation = Put(@, relation_b, n.i.relation + 1)],
              i |-> [n.i EXCEPT !.relation = @ + 1]]
        ELSE n

normalize_language(n, uri) ==
    IF Get(n.index.language, language_b(uri)) = None
    THEN [index |-> [n.index EXCEPT
                       !.language = Put(@, language_b(uri), n.i.language + 1)],
          i |-> [n.i EXCEPT !.language = @ + 1]]
    ELSE n

normalize_label(n, uri) ==
    IF Get(n.index.label, label_language_b(uri)) = None
    THEN [index |-> [n.index EXCEPT
                       !.label = Put(@, label_language_b(uri), n.i.label + 1)],
          i |-> [n.i EXCEPT !.label = @ + 1]]
    ELSE n

normalize_concept_key(n, uri) ==
    IF Get(n.index.concept, concept_b(uri)) = None
    THEN [index |-> [n.index EXCEPT
                       !.concept = Put(@, concept_b(uri), n.i.concept + 1)],
          i |-> [n.i EXCEPT !.concept = @ + 1]]
    ELSE n

\* normalize_concept(uri): language, then label, then concept
normalize_concept(n, uri) ==
    normalize_concept_key(normalize_label(normalize_language(n, uri), uri), uri)

\* The body of the loop of normalize() for one row
normalize_row(n, row) ==
    normalize_concept(
        normalize_concept(normalize_relation(n, row.relation_uri), row.start_uri),
        row.end_uri)

\* The row raises in normalize(): a concept identifier does not unpack
RowParses(row) == ConceptParses(row.start_uri) /\ ConceptParses(row.end_uri)

\* ------------------------------------------------------------ Storage Sink
\* A table is the sequence of its rows in insertion order; the store gives the
\* row appended at position p the primary key p. Relation.name and
\* Language.name are declared unique; Label and Concept carry no unique index.
UniqueViolation(table, name) == name \in Range(table)

\* ------------------------------------------------------------------ insert
\* The state of insert() while it handles one row is
\* t = [store, i, ok]: the tables, the counters relation_i, language_i,
\* label_i, concept_i, edge_i, and ok = FALSE once a statement has raised.
\* insert_relation with `return relation_i` for `return result_id`
insert_relation_returns_counter(t, idx, relation_uri) ==
    LET relation_b == relation_in_bytes(relation_uri)
        result_id == Get(idx.relation, relation_b)
    IN  IF ~t.ok \/ result_id = None
        THEN [t |-> [t EXCEPT !.ok = FALSE], id |-> None]
        ELSE IF result_id = t.i.relation
        THEN IF UniqueViolation(t.store.relation, relation_b)
             THEN [t |-> [t EXCEPT !.ok = FALSE], id |-> None]
             ELSE [t |-> [t EXCEPT !.store.relation = Append(@, relation_b),
                                   !.i.relation = @ + 1],
                   id |-> t.i.relation + 1]
        ELSE [t |-> t, id |-> t.i.relation]

insert_relation(t, idx, relation_uri) ==
    LET relation_b == relation_in_bytes(relation_uri)
        result_id == Get(idx.relation, relation_b)
    IN  IF ~t.ok \/ result_id = None
        THEN [t |-> [t EXCEPT !.ok = FALSE], id |-> None]
        ELSE IF result_id = t.i.relation
        THEN IF UniqueViolation(t.store.relation, relation_b)
             THEN [t |-> [t EXCEPT !.ok = FALSE], id |-> None]
             ELSE [t |-> [t EXCEPT !.store.relation = Append(@, relation_b),
                                   !.i.relation = @ + 1],
                   id |-> result_id]
        ELSE [t |-> t, id |-> result_id]

\* insert_concept comparing language_id with label_i instead of language_i
insert_language_wrong_counter(t, idx, uri) ==
    LET language_id == Get(idx.language, language_b(uri))
        name == split(uri, "/", 4)[3]
    IN  IF ~t.ok \/ language_id = None
        THEN [t |-> [t EXCEPT !.ok = FALSE], id |-> None]
        ELSE IF language_id = t.i.label
        THEN IF UniqueViolation(t.store.language, name)
             THEN [t |-> [t EXCEPT !.ok = FALSE], id |-> None]
             ELSE [t |-> [t EXCEPT !.store.language = Append(@, name),
                                   !.i.language = @ + 1],
                   id |-> language_id]
        ELSE [t |-> t, id |-> language_id]

insert_language(t, idx, uri) ==
    LET language_id == Get(idx.language, language_b(uri))
        name == split(uri, "/", 4)[3]
    IN  IF ~t.ok \/ language_id = None
        THEN [t |-> [t EXCEPT !.ok = FALSE], id |-> None]
        ELSE IF language_id = t.i.language
        THEN IF UniqueViolation(t.store.language, name)
             THEN [t |-> [t EXCEPT !.ok = FALSE], id |-> None]
             ELSE [t |-> [t EXCEPT !.store.language = Append(@, name),
                                   !.i.language = @ + 1],
                   id |-> language_id]
        ELSE [t |-> t, id |-> language_id]

\* insert_concept without `label_i += 1`
insert_label_no_advance(t, idx, uri, language_id) ==
    LET label_id == Get(idx.label, label_language_b(uri))
        text == split(uri, "/", 4)[4]
    IN  IF ~t.ok \/ label_id = None
        THEN [t |-> [t EXCEPT !.ok = FALSE], id |-> None]
        ELSE IF label_id = t.i.label
        THEN [t |-> [t EXCEPT !.store.label =
                                  Append(@, [text |-> text, language_id |-> language_id])],
              id |-> label_id]
        ELSE [t |-> t, id |-> label_id]

insert_label(t, idx, uri, language_id) ==
    LET label_id == Get(idx.label, label_language_b(uri))
        text == split(uri, "/", 4)[4]
    IN  IF ~t.ok \/ label_id = None
        THEN [t |-> [t EXCEPT !.ok = FALSE], id |-> None]
        ELSE IF label_id = t.i.label
        THEN [t |-> [t EXCEPT !.store.label =
                                  Append(@, [text |-> text, language_id |-> language_id]),
                              !.i.label = @ + 1],
              id |-> label_id]
        ELSE [t |-> t, id |-> label_id]

\* insert_concept without `concept_i += 1`
insert_concept_row_no_advance(t, idx, uri, label_id) ==
    LET concept_id == Get(idx.concept, concept_b(uri))
    IN  IF ~t.ok \/ concept_id = None
        THEN [t |-> [t EXCEPT !.ok = FALSE], id |-> None]
        ELSE IF concept_id = t.i.concept
        THEN [t |-> [t EXCEPT !.store.concept =
                                  Append(@, [label_id |-> label_id,
                                             sense_label |-> sense_label(uri)])],
              id |-> concept_id]
        ELSE [t |-> t, id |-> concept_id]

insert_concept_row(t, idx, uri, label_id) ==
    LET concept_id == Get(idx.concept, concept_b(uri))
    IN  IF ~t.ok \/ concept_id = None
        THEN [t |-> [t EXCEPT !.ok = FALSE], id |-> None]
        ELSE IF concept_id = t.i.concept
        THEN [t |-> [t EXCEPT !.store.concept =
                                  Append(@, [label_id |-> label_id,
                                             sense_label |-> sense_label(uri)]),
                              !.i.concept = @ + 1],
              id |-> concept_id]
        ELSE [t |-> t, id |-> concept_id]

\* insert_concept writing language_id where the concept row takes label_id
insert_concept_label_from_language(t, idx, uri) ==
    IF ~t.ok \/ ~ConceptParses(uri)
    THEN [t |-> [t EXCEPT !.ok = FALSE], id |-> None]
    ELSE LET lang == insert_language(t, idx, uri)
             lab == insert_label(lang.t, idx, uri, lang.id)
         IN  insert_concept_row(lab.t, idx, uri, lang.id)

\* insert_concept(uri): language, label and concept of one identifier
insert_concept(t, idx, uri) ==
    IF ~t.ok \/ ~ConceptParses(uri)
    THEN [t |-> [t EXCEPT !.ok = FALSE], id |-> None]
    ELSE LET lang == insert_language(t, idx, uri)
             lab == insert_label(lang.t, idx, uri, lang.id)
         IN  insert_concept_row(lab.t, idx, uri, lab.id)

\* insert_edge that first looks for an equal edge (a get-or-create)
insert_edge_get_or_create(t, relation_id, start_id, end_id) ==
    LET e == [relation_id |-> relation_id, start_id |-> start_id, end_id |-> end_id]
    IN  IF ~t.ok \/ e \in Range(t.store.edge) THEN t
        ELSE [t EXCEPT !.store.edge = Append(@, e)]

insert_edge(t, relation_id, start_id, end_id) ==
    IF ~t.ok THEN t
    ELSE [t EXCEPT !.store.edge =
                       Append(@, [relation_id |-> relation_id,
                                  start_id |-> start_id, end_id |-> end_id])]

\* insert_objects_from_edge() that leaves a row alone when its edge is
\* already stored (get-or-create, as the ORM loader does)
insert_objects_from_edge_get_or_create(t, idx, row) ==
    LET e == [relation_id |-> Get(idx.relation, relation_in_bytes(row.relation_uri)),
              start_id |-> Get(idx.concept, concept_b(row.start_uri)),
              end_id |-> Get(idx.concept, concept_b(row.end_uri))]
        rel == insert_relation(t, idx, row.relation_uri)
        start == insert_concept(rel.t, idx, row.start_uri)
        end == insert_concept(start.t, idx, row.end_uri)
        done == insert_edge(end.t, rel.id, start.id, end.id)
    IN  IF e \in Range(t.store.edge) THEN t
        ELSE IF done.ok THEN [done EXCEPT !.i.edge = @ + 1] ELSE done

\* insert_objects_from_edge() for one row
insert_objects_from_edge(t, idx, row) ==
    LET rel == insert_relation(t, idx, row.relation_uri)
        start == insert_concept(rel.t, idx, row.start_uri)
        end == insert_concept(start.t, idx, row.end_uri)
        done == insert_edge(end.t, rel.id, start.id, end.id)
    IN  IF done.ok THEN [done EXCEPT !.i.edge = @ + 1] ELSE done

\* ----------------------------------------------------------- load_dump_to_db
ZeroCounters == [relation |-> 0, language |-> 0, label |-> 0, concept |-> 0]
Unassigned == [relation |-> 0, language |-> 0, label |-> 0, concept |-> 0, edge |-> 0]
OneCounters == [relation |-> 1, language |-> 1, label |-> 1, concept |-> 1, edge |-> 1]

NoError == [kind |-> "none", at |-> "none"]
Exception(kind, at) == [kind |-> kind, at |-> at]

\* prepare_db is not running; no query is being asked
PrepIdle == [pc |-> "idle"]
QueryIdle == [pc |-> "idle"]

\* load_dump_to_db is called on one of `dumps`
LoadInit(dumps) ==
    /\ dump \in dumps
    /\ dump_is_file \in BOOLEAN
    /\ (~dump_is_file => dump = <<>>)
    /\ edge_count \in 0..MaxRows
    /\ delete_dump \in BOOLEAN
    /\ edge_count_per_insert \in 1..MaxBatch
    /\ pc = "start"
    /\ error = NoError
    /\ lmdb_dir = FALSE
    /\ dbs_opened = 0
    /\ index = EmptyIndex
    /\ norm_i = ZeroCounters
    /\ norm_pos = 0
    /\ tables_created = FALSE
    /\ store = EmptyStore
    /\ committed = EmptyStore
    /\ ins_i = Unassigned
    /\ ins_pos = 0
    /\ finished = FALSE
    /\ batch_no = 0
    /\ batch_n = 0
    /\ first_result = <<>>
    /\ prep = PrepIdle
    /\ query = QueryIdle

Init == LoadInit(Dumps)

\* raise inside the try block: control goes to the finally clause
Raise(e) == error' = Exception(e, pc) /\ pc' = "finally"

\* env = lmdb.open(...): creates the directory and the environment
OpenEnv ==
    /\ pc = "start"
    /\ lmdb_dir' = TRUE
    /\ pc' = "open_dbs"
    /\ UNCHANGED <<inputs, dump_is_file, error, dbs_opened, normState, insState>>

\* lmdb.open raises, before or after it made the directory; the call is
\* outside the try block, so the exception leaves load_dump_to_db at once
OpenEnvFail ==
    /\ pc = "start"
    /\ lmdb_dir' \in BOOLEAN
    /\ error' = Exception("IndexError", pc)
    /\ pc' = "raised"
    /\ UNCHANGED <<inputs, dump_is_file, dbs_opened, normState, insState>>

\* relation_db, language_db, label_db, concept_db = env.open_db(...)
OpenDb ==
    /\ pc = "open_dbs"
    /\ dbs_opened' = dbs_opened + 1
    /\ pc' = IF dbs_opened' = 4 THEN "try" ELSE "open_dbs"
    /\ UNCHANGED <<inputs, dump_is_file, error, lmdb_dir, normState, insState>>

\* env.open_db raises: also outside the try block
OpenDbFail ==
    /\ pc = "open_dbs"
    /\ error' = Exception("IndexError", pc)
    /\ pc' = "raised"
    /\ UNCHANGED <<inputs, dump_is_file, lmdb_dir, dbs_opened, normState, insState>>

\* normalize() without its is_file test
BeginNormalizeNoFileCheck ==
    /\ pc = "try"
    /\ norm_i' = ZeroCounters
    /\ pc' = "normalize" /\ error' = error
    /\ UNCHANGED <<inputs, dump_is_file, lmdb_dir, dbs_opened, index, norm_pos,
                   insState>>

\* _open_db(path=db_path) called before normalize() instead of after it
BeginNormalizeOpensStore ==
    /\ pc = "try"
    /\ norm_i' = ZeroCounters
    /\ tables_created' = TRUE
    /\ IF ~dump_is_file
       THEN Raise("FileNotFoundError")
       ELSE pc' = "normalize" /\ error' = error
    /\ UNCHANGED <<inputs, dump_is_file, lmdb_dir, dbs_opened, index, norm_pos,
                   store, committed, ins_i, ins_pos, finished, batch_no, batch_n>>

\* with env.begin(write=True) as txn: normalize() up to its loop
BeginNormalize ==
    /\ pc = "try"
    /\ norm_i' = ZeroCounters
    /\ IF ~dump_is_file
       THEN Raise("FileNotFoundError")
       ELSE pc' = "normalize" /\ error' = error
    /\ UNCHANGED <<inputs, dump_is_file, lmdb_dir, dbs_opened, index, norm_pos,
                   insState>>

\* the loop of normalize() left after its first row
NormalizeRowStopsEarly ==
    /\ pc = "normalize"
    /\ IF HasNext(dump, edge_count, norm_pos) /\ norm_pos = 0
       THEN LET row == dump[norm_pos + 1]
                n == normalize_row([index |-> index, i |-> norm_i], row)
            IN  IF RowParses(row)
                THEN /\ index' = n.index
                     /\ norm_i' = n.i
                     /\ norm_pos' = norm_pos + 1
                     /\ UNCHANGED <<pc, error>>
                ELSE /\ Raise("ValueError")
                     /\ UNCHANGED <<index, norm_i, norm_pos>>
       ELSE /\ pc' = "open_store"
            /\ UNCHANGED <<error, index, norm_i, norm_pos>>
    /\ UNCHANGED <<inputs, dump_is_file, lmdb_dir, dbs_opened, insState>>

\* one iteration of the loop of normalize(), or its end
NormalizeRow ==
    /\ pc = "normalize"
    /\ IF HasNext(dump, edge_count, norm_pos)
       THEN LET row == dump[norm_pos + 1]
                n == normalize_row([index |-> index, i |-> norm_i], row)
            IN  IF RowParses(row)
                THEN /\ index' = n.index
                     /\ norm_i' = n.i
                     /\ norm_pos' = norm_pos + 1
                     /\ UNCHANGED <<pc, error>>
                ELSE /\ Raise("ValueError")
                     /\ UNCHANGED <<index, norm_i, norm_pos>>
       ELSE /\ pc' = "open_store"
            /\ UNCHANGED <<error, index, norm_i, norm_pos>>
    /\ UNCHANGED <<inputs, dump_is_file, lmdb_dir, dbs_opened, insState>>

\* env.begin, txn.get or txn.put raises during normalize(); the index is
\* removed by the finally clause and never read again
NormalizeIndexFail ==
    /\ pc \in {"try", "normalize"}
    /\ Raise("IndexError")
    /\ UNCHANGED <<inputs, dump_is_file, lmdb_dir, dbs_opened, normState, insState>>

\* _open_db(path=db_path): connect and create the five tables
OpenStore ==
    /\ pc = "open_store"
    /\ tables_created' = TRUE
    /\ pc' = "insert"
    /\ UNCHANGED <<inputs, dump_is_file, error, lmdb_dir, dbs_opened, normState,
                   store, committed, ins_i, ins_pos, finished, batch_no, batch_n>>

OpenStoreFail ==
    /\ pc = "open_store"
    /\ Raise("StoreWriteError")
    /\ UNCHANGED <<inputs, dump_is_file, lmdb_dir, dbs_opened, normState, insState>>

\* insert() up to its while loop
BeginInsert ==
    /\ pc = "insert"
    /\ ins_i' = OneCounters
    /\ ins_pos' = 0
    /\ finished' = FALSE
    /\ pc' = "while"
    /\ UNCHANGED <<inputs, dump_is_file, error, lmdb_dir, dbs_opened, normState,
                   tables_created, store, committed, batch_no, batch_n>>

\* while not finished: with db.atomic(): -- or the loop ends and insert(),
\* the with block and the try block are left
BeginBatch ==
    /\ pc = "while"
    /\ IF finished
       THEN pc' = "txn_exit" /\ UNCHANGED <<batch_no, batch_n>>
       ELSE pc' = "batch" /\ batch_no' = batch_no + 1 /\ batch_n' = 0
    /\ UNCHANGED <<inputs, dump_is_file, error, lmdb_dir, dbs_opened, normState,
                   tables_created, store, committed, ins_i, ins_pos, finished>>

\* a block that commits what it has on the way out, exception or not
RollbackCommitsPartial == committed' = store /\ UNCHANGED store

\* Leaving the db.atomic() block on an exception rolls the transaction back
Rollback == store' = committed /\ UNCHANGED committed

\* one iteration of `for _ in range(edge_count_per_insert)` that got a row
InsertRow ==
    /\ pc = "batch"
    /\ batch_n < edge_count_per_insert
    /\ HasNext(dump, edge_count, ins_pos)
    /\ LET row == dump[ins_pos + 1]
           t == insert_objects_from_edge([store |-> store, i |-> ins_i, ok |-> TRUE],
                                         index, row)
       IN  IF t.ok
           THEN /\ store' = t.store
                /\ ins_i' = t.i
                /\ ins_pos' = ins_pos + 1
                /\ batch_n' = batch_n + 1
                /\ UNCHANGED <<pc, error, committed>>
           ELSE /\ Rollback
                /\ Raise("StoreWriteError")
                /\ ins_pos' = ins_pos + 1
                /\ UNCHANGED <<ins_i, batch_n>>
    /\ UNCHANGED <<inputs, dump_is_file, lmdb_dir, dbs_opened, normState,
                   tables_created, finished, batch_no>>

\* the store rejects a statement of the row (or the index a lookup)
InsertFail ==
    /\ pc = "batch"
    /\ batch_n < edge_count_per_insert
    /\ HasNext(dump, edge_count, ins_pos)
    /\ \E e \in {"StoreWriteError", "IndexError"} : Raise(e)
    /\ Rollback
    /\ ins_pos' = ins_pos + 1
    /\ UNCHANGED <<inputs, dump_is_file, lmdb_dir, dbs_opened, normState,
                   tables_created, ins_i, finished, batch_no, batch_n>>

\* the for loop ends (range exhausted, or StopIteration sets finished) and
\* db.atomic() commits
BatchEnds == batch_n = edge_count_per_insert \/ ~HasNext(dump, edge_count, ins_pos)

\* the for loop setting finished when it ends for either reason
CommitAlwaysFinishes ==
    /\ pc = "batch"
    /\ BatchEnds
    /\ finished' = TRUE
    /\ committed' = store
    /\ pc' = "while"
    /\ UNCHANGED <<inputs, dump_is_file, error, lmdb_dir, dbs_opened, normState,
                   tables_created, store, ins_i, ins_pos, batch_no, batch_n>>

\* a loop that finishes as soon as the reader has no further row
CommitFinishesAtEndOfInput ==
    /\ pc = "batch"
    /\ BatchEnds
    /\ finished' = ~HasNext(dump, edge_count, ins_pos)
    /\ committed' = store
    /\ pc' = "while"
    /\ UNCHANGED <<inputs, dump_is_file, error, lmdb_dir, dbs_opened, normState,
                   tables_created, store, ins_i, ins_pos, batch_no, batch_n>>

Commit ==
    /\ pc = "batch"
    /\ BatchEnds
    /\ finished' = (batch_n < edge_count_per_insert)
    /\ committed' = store
    /\ pc' = "while"
    /\ UNCHANGED <<inputs, dump_is_file, error, lmdb_dir, dbs_opened, normState,
                   tables_created, store, ins_i, ins_pos, batch_no, batch_n>>

\* the commit raises: db.atomic() rolls back and re-raises
CommitFail ==
    /\ pc = "batch"
    /\ BatchEnds
    /\ finished' = (batch_n < edge_count_per_insert)
    /\ Rollback
    /\ Raise("StoreWriteError")
    /\ UNCHANGED <<inputs, dump_is_file, lmdb_dir, dbs_opened, normState,
                   tables_created, ins_i, ins_pos, batch_no, batch_n>>

\* insert() returned: the `with env.begin(write=True)` block commits the
\* lmdb transaction on the way out
TxnExit ==
    /\ pc = "txn_exit"
    /\ pc' = "finally"
    /\ UNCHANGED <<inputs, dump_is_file, error, lmdb_dir, dbs_opened, normState,
                   insState>>

\* that commit raises
TxnExitFail ==
    /\ pc = "txn_exit"
    /\ Raise("IndexError")
    /\ UNCHANGED <<inputs, dump_is_file, lmdb_dir, dbs_opened, normState, insState>>

\* a finally clause that returns, which drops the exception in flight
FinallyReturns ==
    /\ pc = "finally"
    /\ lmdb_dir' = FALSE
    /\ dump_is_file' = (dump_is_file /\ ~delete_dump)
    /\ pc' = "returned"
    /\ UNCHANGED <<inputs, error, dbs_opened, normState, insState>>

\* finally: shutil.rmtree(lmdb_db_path); if delete_dump and is_file: unlink
Finally ==
    /\ pc = "finally"
    /\ lmdb_dir' = FALSE
    /\ dump_is_file' = (dump_is_file /\ ~delete_dump)
    /\ pc' = IF error = NoError THEN "returned" ELSE "raised"
    /\ UNCHANGED <<inputs, error, dbs_opened, normState, insState>>

Next ==
    \/ OpenEnv \/ OpenEnvFail \/ OpenDb \/ OpenDbFail
    \/ BeginNormalize \/ NormalizeRow \/ NormalizeIndexFail
    \/ OpenStore \/ OpenStoreFail
    \/ BeginInsert \/ BeginBatch \/ InsertRow \/ InsertFail
    \/ Commit \/ CommitFail
    \/ TxnExit \/ TxnExitFail
    \/ Finally

Spec == Init /\ [][Next]_vars

\* The same relation as Next, written with the steps of simple guard first
NextStep ==
    \/ OpenEnv \/ OpenDb \/ BeginNormalize \/ NormalizeIndexFail
    \/ OpenStore \/ BeginInsert \/ BeginBatch \/ InsertFail \/ Commit
    \/ TxnExit \/ Finally \/ Next

\* Dumps of rows that load without error
LivePool == { Row(R_IsA, C_en_a, C_en_b), Row(R_is_a, C_en_a_n, C_fr_a) }

InitLive == LoadInit(SeqsUpTo(LivePool, MaxRows))

\* load_dump_to_db runs on: the interpreter takes a step whenever there is one
SpecLive == InitLive /\ [][Next]_vars /\ WF_vars(NextStep)

\* A caller that, after a call returned and left the dump in place, calls
\* load_dump_to_db once more over the same dump with a new, empty db_path
\* and any batch size, keeping the tables of the first call for comparison.
RunAgain ==
    /\ pc = "returned"
    /\ first_result = <<>>
    /\ dump_is_file
    /\ first_result' = <<committed>>
    /\ edge_count_per_insert' \in 1..MaxBatch
    /\ pc' = "start"
    /\ dbs_opened' = 0
    /\ index' = EmptyIndex
    /\ norm_i' = ZeroCounters
    /\ norm_pos' = 0
    /\ tables_created' = FALSE
    /\ store' = EmptyStore
    /\ committed' = EmptyStore
    /\ ins_i' = Unassigned
    /\ ins_pos' = 0
    /\ finished' = FALSE
    /\ batch_no' = 0
    /\ batch_n' = 0
    /\ UNCHANGED <<dump, dump_is_file, edge_count, delete_dump, error, lmdb_dir,
                   prep, query>>

NextTwice == Next \/ RunAgain

SpecTwice == Init /\ [][NextTwice]_vars

\* ---------------------------------------------------------------- read side
\* Concept.uri, with Concept.language and Concept.text, of the concept row
\* with primary key id
ConceptUri(tables, id) ==
    LET self == tables.concept[id]
        label == tables.label[self.label_id]
        language == tables.language[label.language_id]
        ending == IF self.sense_label # <<>> THEN <<"/">> \o self.sense_label ELSE <<>>
    IN  <<"/", "c", "/">> \o language \o <<"/">> \o label.text \o ending

\* A caller that, after a call returned and left the dump in place, calls
\* load_dump_to_db once more over the same dump and the same db_path: the
\* store keeps the rows of the first call, the index is a new one.
RunSameStore ==
    /\ pc = "returned"
    /\ first_result = <<>>
    /\ dump_is_file
    /\ first_result' = <<committed>>
    /\ pc' = "start"
    /\ dbs_opened' = 0
    /\ index' = EmptyIndex
    /\ norm_i' = ZeroCounters
    /\ norm_pos' = 0
    /\ ins_i' = Unassigned
    /\ ins_pos' = 0
    /\ finished' = FALSE
    /\ batch_no' = 0
    /\ batch_n' = 0
    /\ UNCHANGED <<dump, dump_is_file, edge_count, delete_dump,
                   edge_count_per_insert, error, lmdb_dir, tables_created,
                   store, committed, prep, query>>

NextRerun == Next \/ RunSameStore

SpecRerun == Init /\ [][NextRerun]_vars

\* ---- dumps that carry identifiers without their minimum segments
R_bare == <<"/", "r">>

MalformedPool ==
    { Row(R_bare,   C_en_a, C_en_b),
      Row(R_IsA,    C_en,   C_en_a),
      Row(R_IsA,    C_en_a, C_en_b),
      Row(R_PartOf, C_en_b, C_fr_a) }

InitMalformed == LoadInit(SeqsUpTo(MalformedPool, MaxRows))

SpecMalformed == InitMalformed /\ [][Next]_vars

\* ---- the rows of the worked example: (r1, en:a, en:b), (r1, en:a, fr:x),
\* (r2, en:b, en:a)
C_fr_x == <<"/","c","/","f","r","/","x">>

Example ==
    << Row(R_IsA,    C_en_a, C_en_b),
       Row(R_IsA,    C_en_a, C_fr_x),
       Row(R_PartOf, C_en_b, C_en_a) >>

InitExample == LoadInit(SeqsUpTo(Range(Example), MaxRows))

SpecExample == InitExample /\ [][Next]_vars

\* ------------------------------------------------------------------ prepare_db
loadVars == <<dump, dump_is_file, edge_count, delete_dump, edge_count_per_insert,
              pc, error, lmdb_dir, dbs_opened, index, norm_i, norm_pos,
              tables_created, store, committed, ins_i, ins_pos, finished,
              batch_no, batch_n, first_result>>

\* load_dump_to_db is not running
LoadIdle ==
    /\ dump = <<>> /\ dump_is_file = FALSE /\ edge_count = 0
    /\ delete_dump = FALSE /\ edge_count_per_insert = 1
    /\ pc = "idle" /\ error = NoError /\ lmdb_dir = FALSE /\ dbs_opened = 0
    /\ index = EmptyIndex /\ norm_i = ZeroCounters /\ norm_pos = 0
    /\ tables_created = FALSE /\ store = EmptyStore /\ committed = EmptyStore
    /\ ins_i = Unassigned /\ ins_pos = 0 /\ finished = FALSE
    /\ batch_no = 0 /\ batch_n = 0 /\ first_result = <<>>

\* prepare_db is called. The files it will look at: the dump and the archive
\* at the paths derived from CONCEPTNET_DUMP_DOWNLOAD_URL, a conceptnet.db
\* inside db_path when that is a directory, and the file at the download
\* destination of dump_download_url when its name is not the default one.
InitPrepare ==
    /\ LoadIdle
    /\ query = QueryIdle
    /\ \E db_conflict, d, a, dd, dcd, url_default, other \in BOOLEAN :
          /\ url_default => ~other
          /\ prep = [pc |-> "start", db_conflict |-> db_conflict,
                     dump |-> d, archive |-> a, dump0 |-> d, archive0 |-> a,
                     delete_dump |-> dd, delete_compressed_dump |-> dcd,
                     url_default |-> url_default, other |-> other,
                     calls |-> <<>>, error |-> "none"]

\* What a call of load_dump_to_db can do to the dump and how it can end
LoadOutcomes(p) ==
    IF ~p.dump
    THEN {[dump |-> FALSE, exc |-> "FileNotFoundError"],
          [dump |-> FALSE, exc |-> "Error"]}
    ELSE {[dump |-> ~p.delete_dump, exc |-> "none"],
          [dump |-> ~p.delete_dump, exc |-> "Error"],
          [dump |-> TRUE, exc |-> "Error"]}

\* extract_compressed_dump(compressed_dump_path, delete_compressed_dump)
ExtractOutcomes(p) ==
    IF ~p.archive
    THEN {[dump |-> p.dump, archive |-> FALSE, exc |-> "FileNotFoundError"]}
    ELSE {[dump |-> TRUE, archive |-> ~p.delete_compressed_dump, exc |-> e] :
             e \in {"none", "Error"}}

\* download_dump(url=dump_download_url, out_dir_path=db_path.parent)
DownloadOutcomes(p) ==
    LET exists == IF p.url_default THEN p.archive ELSE p.other
    IN  IF exists
        THEN {[archive |-> p.archive, other |-> p.other, exc |-> "FileExistsError"]}
        ELSE {[archive |-> p.archive, other |-> p.other, exc |-> "Error"],
              IF p.url_default
              THEN [archive |-> TRUE, other |-> p.other, exc |-> "none"]
              ELSE [archive |-> p.archive, other |-> TRUE, exc |-> "none"]}

Called(p, f) == [p EXCEPT !.calls = Append(@, f)]
PrepRaise(p, e) == [p EXCEPT !.error = e, !.pc = "finally"]

\* db_path is a directory that already holds conceptnet.db: FileExistsError
PrepStart ==
    /\ prep.pc = "start"
    /\ prep' = IF prep.db_conflict
               THEN [prep EXCEPT !.error = "FileExistsError", !.pc = "raised"]
               ELSE [prep EXCEPT !.pc = "load1"]
    /\ UNCHANGED <<loadVars, query>>

\* the outer handler catching every exception, not only FileNotFoundError
PrepLoad1CatchesAll ==
    /\ prep.pc = "load1"
    /\ \E out \in LoadOutcomes(prep) :
          LET p == [Called(prep, "load") EXCEPT !.dump = out.dump]
          IN  prep' = IF out.exc = "none" THEN [p EXCEPT !.pc = "finally"]
                      ELSE [p EXCEPT !.pc = "extract1"]
    /\ UNCHANGED <<loadVars, query>>

\* try: load_dump_to_db_()  except FileNotFoundError:
PrepLoad1 ==
    /\ prep.pc = "load1"
    /\ \E out \in LoadOutcomes(prep) :
          LET p == [Called(prep, "load") EXCEPT !.dump = out.dump]
          IN  prep' = CASE out.exc = "none" -> [p EXCEPT !.pc = "finally"]
                        [] out.exc = "FileNotFoundError" -> [p EXCEPT !.pc = "extract1"]
                        [] OTHER -> PrepRaise(p, out.exc)
    /\ UNCHANGED <<loadVars, query>>

\* try: extract_compressed_dump_() ...  except FileNotFoundError:
PrepExtract1 ==
    /\ prep.pc = "extract1"
    /\ \E out \in ExtractOutcomes(prep) :
          LET p == [Called(prep, "extract") EXCEPT !.dump = out.dump,
                                                   !.archive = out.archive]
          IN  prep' = CASE out.exc = "none" -> [p EXCEPT !.pc = "load2"]
                        [] out.exc = "FileNotFoundError" -> [p EXCEPT !.pc = "download"]
                        [] OTHER -> PrepRaise(p, out.exc)
    /\ UNCHANGED <<loadVars, query>>

\* ... load_dump_to_db_()  except FileNotFoundError:
PrepLoad2 ==
    /\ prep.pc = "load2"
    /\ \E out \in LoadOutcomes(prep) :
          LET p == [Called(prep, "load") EXCEPT !.dump = out.dump]
          IN  prep' = CASE out.exc = "none" -> [p EXCEPT !.pc = "finally"]
                        [] out.exc = "FileNotFoundError" -> [p EXCEPT !.pc = "download"]
                        [] OTHER -> PrepRaise(p, out.exc)
    /\ UNCHANGED <<loadVars, query>>

\* download_dump_()
PrepDownload ==
    /\ prep.pc = "download"
    /\ \E out \in DownloadOutcomes(prep) :
          LET p == [Called(prep, "download") EXCEPT !.archive = out.archive,
                                                    !.other = out.other]
          IN  prep' = IF out.exc = "none" THEN [p EXCEPT !.pc = "extract2"]
                      ELSE PrepRaise(p, out.exc)
    /\ UNCHANGED <<loadVars, query>>

\* extract_compressed_dump_() after the download
PrepExtract2 ==
    /\ prep.pc = "extract2"
    /\ \E out \in ExtractOutcomes(prep) :
          LET p == [Called(prep, "extract") EXCEPT !.dump = out.dump,
                                                   !.archive = out.archive]
          IN  prep' = IF out.exc = "none" THEN [p EXCEPT !.pc = "load3"]
                      ELSE PrepRaise(p, out.exc)
    /\ UNCHANGED <<loadVars, query>>

\* load_dump_to_db_() after the download
PrepLoad3 ==
    /\ prep.pc = "load3"
    /\ \E out \in LoadOutcomes(prep) :
          LET p == [Called(prep, "load") EXCEPT !.dump = out.dump]
          IN  prep' = IF out.exc = "none" THEN [p EXCEPT !.pc = "finally"]
                      ELSE PrepRaise(p, out.exc)
    /\ UNCHANGED <<loadVars, query>>

\* finally: unlink the archive and the dump when asked to and present
PrepFinally ==
    /\ prep.pc = "finally"
    /\ prep' = [prep EXCEPT
                  !.archive = @ /\ ~prep.delete_compressed_dump,
                  !.dump = @ /\ ~prep.delete_dump,
                  !.pc = IF prep.error = "none" THEN "returned" ELSE "raised"]
    /\ UNCHANGED <<loadVars, query>>

NextPrepare ==
    \/ PrepStart \/ PrepLoad1 \/ PrepExtract1 \/ PrepLoad2
    \/ PrepDownload \/ PrepExtract2 \/ PrepLoad3 \/ PrepFinally

SpecPrepare == InitPrepare /\ [][NextPrepare]_vars

\* ------------------------------------------------------------------ queries
MaxConcepts == 2
MaxEdges == 2

ConceptIds == 1..MaxConcepts
\* the Edge table: edge id |-> its start and end concepts
EdgeTables == SeqsUpTo([start : ConceptIds, end : ConceptIds], MaxEdges)

\* the conditions joined by "or" in place of "and"
edges_between_either_end(edges, start_concepts, end_concepts, two_way) ==
    IF two_way
    THEN {e \in DOMAIN edges :
            \/ (edges[e].start \in start_concepts) \/ (edges[e].end \in end_concepts)
            \/ (edges[e].start \in end_concepts) \/ (edges[e].end \in start_concepts)}
    ELSE {e \in DOMAIN edges :
            (edges[e].start \in start_concepts) \/ (edges[e].end \in end_concepts)}

edges_between(edges, start_concepts, end_concepts, two_way) ==
    IF two_way
    THEN {e \in DOMAIN edges :
            \/ (edges[e].start \in start_concepts) /\ (edges[e].end \in end_concepts)
            \/ (edges[e].start \in end_concepts) /\ (edges[e].end \in start_concepts)}
    ELSE {e \in DOMAIN edges :
            (edges[e].start \in start_concepts) /\ (edges[e].end \in end_concepts)}

\* a database with some edges, and the arguments of one call
InitQuery ==
    /\ LoadIdle
    /\ prep = PrepIdle
    /\ \E edges \in EdgeTables, S \in SUBSET ConceptIds, E \in SUBSET ConceptIds,
          two_way \in BOOLEAN :
          query = [pc |-> "call", edges |-> edges, start_concepts |-> S,
                   end_concepts |-> E, two_way |-> two_way, result |-> {}]

EdgesBetween ==
    /\ query.pc = "call"
    /\ query' = [query EXCEPT
                   !.result = edges_between(query.edges, query.start_concepts,
                                            query.end_concepts, query.two_way),
                   !.pc = "done"]
    /\ UNCHANGED <<loadVars, prep>>

NextQuery == EdgesBetween

SpecQuery == InitQuery /\ [][NextQuery]_vars

\* ------------------------------------------- edges_from, edges_to, edges_for
Languages == {"en", "fr"}

\* `and` binds tighter than `or`:
\* (e.start in start_concepts and not same_language) or <same language>
edges_from(edges, language, start_concepts, same_language) ==
    {e \in DOMAIN edges :
        \/ (edges[e].start \in start_concepts) /\ ~same_language
        \/ language[edges[e].start] = language[edges[e].end]}

edges_to(edges, language, end_concepts, same_language) ==
    {e \in DOMAIN edges :
        \/ (edges[e].end \in end_concepts) /\ ~same_language
        \/ language[edges[e].start] = language[edges[e].end]}

edges_for(edges, language, concepts, same_language) ==
    {e \in DOMAIN edges :
        /\ (edges[e].start \in concepts) \/ (edges[e].end \in concepts)
        /\ ~same_language \/ language[edges[e].start] = language[edges[e].end]}

\* a database of concepts, each with the language of its label, and edges;
\* and the arguments the three queries are called with
InitEdges ==
    /\ LoadIdle
    /\ prep = PrepIdle
    /\ \E edges \in EdgeTables, language \in [ConceptIds -> Languages],
          concepts \in SUBSET ConceptIds, same_language \in BOOLEAN :
          query = [pc |-> "edges", edges |-> edges, language |-> language,
                   concepts |-> concepts, same_language |-> same_language,
                   asked |-> {}, from |-> {}, to |-> {}, for |-> {}]

EdgesFrom ==
    /\ query.pc = "edges" /\ "from" \notin query.asked
    /\ query' = [query EXCEPT
                   !.from = edges_from(query.edges, query.language, query.concepts,
                                       query.same_language),
                   !.asked = @ \cup {"from"}]
    /\ UNCHANGED <<loadVars, prep>>

EdgesTo ==
    /\ query.pc = "edges" /\ "to" \notin query.asked
    /\ query' = [query EXCEPT
                   !.to = edges_to(query.edges, query.language, query.concepts,
                                   query.same_language),
                   !.asked = @ \cup {"to"}]
    /\ UNCHANGED <<loadVars, prep>>

EdgesFor ==
    /\ query.pc = "edges" /\ "for" \notin query.asked
    /\ query' = [query EXCEPT
                   !.for = edges_for(query.edges, query.language, query.concepts,
                                     query.same_language),
                   !.asked = @ \cup {"for"}]
    /\ UNCHANGED <<loadVars, prep>>

NextEdges == EdgesFrom \/ EdgesTo \/ EdgesFor

SpecEdges == InitEdges /\ [][NextEdges]_vars

\* ------------------------------------------------------------ the two readers
\* A generator that has yielded nothing yet: i of enumerate, the rows
\* yielded, and whether it is exhausted
NewGenerator == [i |-> 0, out |-> <<>>, done |-> FALSE]

\* ConceptNet.load_dump_to_db and db.load_dump_to_db each start their reader
\* over the same dump with the same cap
InitReaders ==
    /\ LoadIdle
    /\ prep = PrepIdle
    /\ \E rows \in SeqsUpTo(LivePool, MaxRows), count \in 0..MaxRows :
          query = [pc |-> "reading", rows |-> rows, count |-> count,
                   orm |-> NewGenerator, db |-> NewGenerator]

\* next() on the reader of ConceptNet.load_dump_to_db:
\* for i, row in enumerate(reader): yield row[1:5]; if i == count: break
OrmReaderNext ==
    /\ query.pc = "reading"
    /\ ~query.orm.done
    /\ LET g == query.orm
       IN  query' = [query EXCEPT !.orm =
              IF g.i > 0 /\ g.i - 1 = query.count
              THEN [g EXCEPT !.done = TRUE]
              ELSE IF g.i < Len(query.rows)
              THEN [g EXCEPT !.out = Append(@, query.rows[g.i + 1]), !.i = @ + 1]
              ELSE [g EXCEPT !.done = TRUE]]
    /\ UNCHANGED <<loadVars, prep>>

\* next() on the reader of db.load_dump_to_db:
\* for i, row in enumerate(reader): if i == count: break; yield row[1:5]
DbReaderNext ==
    /\ query.pc = "reading"
    /\ ~query.db.done
    /\ LET g == query.db
       IN  query' = [query EXCEPT !.db =
              IF HasNext(query.rows, query.count, g.i)
              THEN [g EXCEPT !.out = Append(@, query.rows[g.i + 1]), !.i = @ + 1]
              ELSE [g EXCEPT !.done = TRUE]]
    /\ UNCHANGED <<loadVars, prep>>

NextReaders == OrmReaderNext \/ DbReaderNext

SpecReaders == InitReaders /\ [][NextReaders]_vars

\* ================================================================== claims
Min(a, b) == IF a < b THEN a ELSE b

\* The rows a run with this cap is to process: the first edge_count rows
Processed == SubSeq(dump, 1, Min(edge_count, Len(dump)))

\* The run returned normally to its caller
Succeeded == pc = "returned"

RelationKeys(rows) == {relation_in_bytes(rows[k].relation_uri) : k \in DOMAIN rows}
Uris(rows) == {rows[k].start_uri : k \in DOMAIN rows} \cup {rows[k].end_uri : k \in DOMAIN rows}
LanguageKeys(rows) == {language_b(u) : u \in Uris(rows)}
LabelKeys(rows) == {label_language_b(u) : u \in Uris(rows)}
ConceptKeys(rows) == {concept_b(u) : u \in Uris(rows)}

\* C1: after a successful run into an empty store, each of the four entity
\* tables holds as many rows as there are distinct canonical keys of its
\* namespace among the processed rows.
C1_OneRowPerKey ==
    Succeeded =>
        /\ Len(committed.relation) = Cardinality(RelationKeys(Processed))
        /\ Len(committed.language) = Cardinality(LanguageKeys(Processed))
        /\ Len(committed.label) = Cardinality(LabelKeys(Processed))
        /\ Len(committed.concept) = Cardinality(ConceptKeys(Processed))

\* a successful run over three rows, the third equal to the first, in which
\* keys repeat in every namespace
C1_Witness ==
    /\ Succeeded
    /\ Len(Processed) = 3
    /\ Len(committed.relation) = 2
    /\ Len(committed.language) = 2
    /\ Len(committed.label) = 2
    /\ Len(committed.concept) = 4
    /\ Processed[1] = Processed[3]

\* C2: after a successful run the edge table holds one row per processed
\* input row, in row order, carrying the ids the index holds for that row's
\* relation, start and end; identical rows give identical edge rows.
C2_OneEdgePerRow ==
    Succeeded =>
        /\ Len(committed.edge) = Len(Processed)
        /\ \A k \in DOMAIN Processed :
             committed.edge[k] =
                [relation_id |-> index.relation[relation_in_bytes(Processed[k].relation_uri)],
                 start_id |-> index.concept[concept_b(Processed[k].start_uri)],
                 end_id |-> index.concept[concept_b(Processed[k].end_uri)]]

\* a successful run over a dump that repeats a row: two equal edge rows
C2_Witness ==
    /\ Succeeded
    /\ Len(Processed) >= 2
    /\ Processed[1] = Processed[2]
    /\ committed.edge[1] = committed.edge[2]

\* The keys of one namespace in the order normalize() meets them in a row
RowKeys(ns, row) ==
    CASE ns = "relation" -> <<relation_in_bytes(row.relation_uri)>>
      [] ns = "language" -> <<language_b(row.start_uri), language_b(row.end_uri)>>
      [] ns = "label" -> <<label_language_b(row.start_uri), label_language_b(row.end_uri)>>
      [] ns = "concept" -> <<concept_b(row.start_uri), concept_b(row.end_uri)>>

RECURSIVE KeyStream(_, _)
KeyStream(ns, rows) ==
    IF rows = <<>> THEN <<>> ELSE RowKeys(ns, Head(rows)) \o KeyStream(ns, Tail(rows))

\* A sequence without its repeats, first occurrences kept in order
RECURSIVE FirstOccurrences(_)
FirstOccurrences(q) ==
    IF q = <<>> THEN <<>>
    ELSE LET front == FirstOccurrences(SubSeq(q, 1, Len(q) - 1))
             last == q[Len(q)]
         IN  IF last \in Range(front) THEN front ELSE Append(front, last)

Namespaces == {"relation", "language", "label", "concept"}

\* The index of a namespace numbers the keys met so far 1, 2, ... in the
\* order of their first occurrence, and the counter is the last number given
DenseIds(ns) ==
    LET keys == FirstOccurrences(KeyStream(ns, SubSeq(dump, 1, norm_pos)))
    IN  /\ DOMAIN index[ns] = Range(keys)
        /\ \A j \in DOMAIN keys : index[ns][keys[j]] = j
        /\ norm_i[ns] = Len(keys)

\* A key that has an id keeps it
IdsStable ==
    \A ns \in Namespaces : \A key \in DOMAIN index[ns] :
        key \in DOMAIN index'[ns] /\ index'[ns][key] = index[ns][key]

\* C3: throughout the run, in each namespace the ids in the Dedup Index are
\* exactly 1..counter, given in order of first occurrence of the key, and an
\* id once given never changes.
C3_DenseStableIds ==
    /\ [](\A ns \in Namespaces : DenseIds(ns))
    /\ [][IdsStable]_vars

\* the Normalization Pass after two rows, with a repeated relation key and
\* at least three concepts numbered
C3_Witness ==
    /\ pc = "normalize"
    /\ norm_pos >= 2
    /\ norm_i.relation = 1
    /\ norm_i.concept >= 3
    /\ norm_i.language = 2

\* ---- the tables a list of rows produces, loaded in one transaction
RECURSIVE NormalizeAll(_, _)
NormalizeAll(n, rows) ==
    IF rows = <<>> THEN n ELSE NormalizeAll(normalize_row(n, Head(rows)), Tail(rows))

RECURSIVE InsertAll(_, _, _)
InsertAll(t, idx, rows) ==
    IF rows = <<>> THEN t
    ELSE InsertAll(insert_objects_from_edge(t, idx, Head(rows)), idx, Tail(rows))

Loaded(rows) ==
    InsertAll([store |-> EmptyStore, i |-> OneCounters, ok |-> TRUE],
              NormalizeAll([index |-> EmptyIndex, i |-> ZeroCounters], rows).index,
              rows).store

\* The run failed inside a db.atomic() block of the Insertion Pass
FailedInBatch == error.at = "batch"

\* C4: when an insert or the commit fails in batch k, the store holds
\* exactly the rows the first (k-1)*B input rows produce, committed, and
\* nothing of batch k.
C4_FailedBatchInvisible ==
    FailedInBatch =>
        /\ committed = Loaded(SubSeq(dump, 1, (batch_no - 1) * edge_count_per_insert))
        /\ store = committed

\* a failure in the second batch of two rows, after a row of it was inserted
C4_Witness ==
    /\ FailedInBatch
    /\ edge_count_per_insert = 2
    /\ batch_no = 2
    /\ batch_n = 1
    /\ Len(committed.edge) = 2

\* C5: in every committed state every foreign key refers to a row that is
\* present: edge -> relation, edge -> concept (start and end),
\* concept -> label, label -> language.
C5_ReferencesResolve ==
    /\ \A k \in DOMAIN committed.edge :
          /\ committed.edge[k].relation_id \in DOMAIN committed.relation
          /\ committed.edge[k].start_id \in DOMAIN committed.concept
          /\ committed.edge[k].end_id \in DOMAIN committed.concept
    /\ \A k \in DOMAIN committed.concept :
          committed.concept[k].label_id \in DOMAIN committed.label
    /\ \A k \in DOMAIN committed.label :
          committed.label[k].language_id \in DOMAIN committed.language

\* a failed run that left two committed batches behind, with rows in every
\* table and a second language
C5_Witness ==
    /\ error # NoError
    /\ pc = "raised"
    /\ batch_no = 3
    /\ Len(committed.edge) = 2
    /\ Len(committed.language) = 2
    /\ Len(committed.concept) >= 3

\* C6: a run with row cap N reads the first N rows in both passes and no
\* more, and ends with the tables that loading the first N rows alone gives.
C6_CapIsTruncation ==
    Succeeded =>
        LET N == Min(edge_count, Len(dump))
        IN  /\ norm_pos = N
            /\ ins_pos = N
            /\ committed = Loaded(SubSeq(dump, 1, N))

\* a successful run whose cap cut rows off a longer dump
C6_Witness ==
    /\ Succeeded
    /\ edge_count >= 1
    /\ edge_count < Len(dump)
    /\ Len(committed.edge) = edge_count

\* C7: two successful runs over the same dump into empty stores, with any
\* two batch sizes, end with the same rows under the same ids in every table.
C7_BatchSizeIrrelevant ==
    (Succeeded /\ first_result # <<>>) => committed = first_result[1]

\* two successful runs over three rows, the first committing after every
\* row and the second after every second row
C7_Witness ==
    /\ Succeeded
    /\ first_result # <<>>
    /\ Len(first_result[1].edge) = 3
    /\ edge_count_per_insert = 2
    /\ batch_no = 2

\* C8: no two concept rows of the store share (label_id, sense_label).
C8_ConceptPairsUnique ==
    \A j, k \in DOMAIN committed.concept :
        j # k => committed.concept[j] # committed.concept[k]

\* ---- the phases of a run
Phase ==
    IF error # NoError THEN "Failed"
    ELSE CASE pc \in {"start", "open_dbs", "try"} -> "NotStarted"
           [] pc = "normalize" -> "Normalizing"
           [] pc \in {"open_store", "insert", "while", "batch", "txn_exit"} -> "Inserting"
           [] pc \in {"finally", "returned"} -> "Complete"

Rank(ph) ==
    CASE ph = "NotStarted" -> 0
      [] ph = "Normalizing" -> 1
      [] ph = "Inserting" -> 2
      [] ph = "Complete" -> 3
      [] ph = "Failed" -> 4

\* The Normalization Pass has read its last row and control has left it
NormalizationOver ==
    /\ ~HasNext(dump, edge_count, norm_pos)
    /\ pc \in {"open_store", "insert", "while", "batch"}

\* The step writes the store or reads a row for the Insertion Pass
TouchesInsertion ==
    \/ tables_created' # tables_created
    \/ store' # store
    \/ committed' # committed
    \/ ins_pos' # ins_pos

PhaseStep ==
    /\ \/ Phase' = Phase
       \/ Phase' = "Failed"
       \/ Rank(Phase') = Rank(Phase) + 1 /\ Phase' # "Failed"
    /\ Phase = "Failed" => Phase' = "Failed"
    /\ TouchesInsertion => NormalizationOver
    /\ normState' # normState =>
          /\ Phase = "Normalizing"
          /\ ~tables_created /\ store = EmptyStore /\ ins_pos = 0 /\ batch_no = 0

\* C9: a run goes NotStarted, Normalizing, Inserting, Complete in that
\* order, one phase at a time; the store is written and the second reader
\* read only once the Normalization Pass has read its last row; the index
\* is written only while Normalizing, before any of that; and after an
\* error the run is Failed for good.
C9_PhasesInOrder == [][PhaseStep]_vars

\* a run that completed after both passes read two rows
C9_Witness ==
    /\ Phase = "Complete"
    /\ pc = "returned"
    /\ norm_pos = 2
    /\ ins_pos = 2
    /\ Len(committed.edge) = 2

\* C10: when load_dump_to_db has returned or raised, the directory of the
\* Dedup Index is gone.
C10_IndexDirRemoved == pc \in {"returned", "raised"} => ~lmdb_dir


\* C11: with delete_dump set, a run that failed while Normalizing or
\* Inserting leaves the dump file in place.
C11_DumpKeptOnFailure ==
    (pc = "raised" /\ delete_dump /\ error.at \in {"normalize", "open_store", "batch"})
        => dump_is_file

\* ---- identifiers with their minimum segments
\* a relation identifier: the prefix /r/ and a name
RelationWellFormed(uri) ==
    Len(uri) > 3 /\ SubSeq(uri, 1, 3) = <<"/", "r", "/">>

\* a concept identifier: a namespace marker, a language and a text
ConceptWellFormed(uri) == Len(split(uri, "/", 4)) >= 4

RowWellFormed(row) ==
    /\ RelationWellFormed(row.relation_uri)
    /\ ConceptWellFormed(row.start_uri)
    /\ ConceptWellFormed(row.end_uri)

MissingDumpRun ==
    /\ pc \notin {"normalize", "open_store", "insert", "while", "batch",
                  "txn_exit", "returned"}
    /\ norm_pos = 0 /\ ins_pos = 0
    /\ ~tables_created /\ store = EmptyStore /\ committed = EmptyStore
    /\ (pc \in {"finally", "raised"} /\ error.at = "try" /\ error.kind # "IndexError")
          => error.kind = "FileNotFoundError"
    /\ (pc = "raised" /\ error.kind = "FileNotFoundError") => ~lmdb_dir

\* C13: a call made while dump_path is no file never reads a row and never
\* creates or writes the store; once the index is open it raises
\* FileNotFoundError, and when that error reaches the caller the index
\* directory is gone.
C13_MissingDumpFails == (~dump_is_file) => []MissingDumpRun

\* the call raised FileNotFoundError to its caller after opening the index
C13_Witness ==
    /\ pc = "raised"
    /\ error = Exception("FileNotFoundError", "try")
    /\ dbs_opened = 4
    /\ ~lmdb_dir
    /\ ~tables_created

\* A step taken in normalize() leaves the store alone
NormalizingFrame ==
    pc \in {"try", "normalize"} => UNCHANGED <<tables_created, store, committed>>

\* C14: no step of the Normalization Pass creates, writes or commits the
\* store, and a run that failed in that pass has left the store as it was.
C14_NormalizePassReadOnly ==
    /\ [][NormalizingFrame]_vars
    /\ [](error.at \in {"try", "normalize"} =>
            (~tables_created /\ store = EmptyStore /\ committed = EmptyStore))

\* a run that failed on its second row of the Normalization Pass
C14_Witness ==
    /\ pc = "raised"
    /\ error.at = "normalize"
    /\ norm_pos = 1
    /\ Len(dump) >= 2
    /\ ~tables_created

\* An exception in flight stays in flight up to the caller, and the call
\* returns only when there is none
ErrorPropagates ==
    /\ error # NoError => (error' = error /\ pc' \in {"finally", "raised"})
    /\ pc' = "returned" => (error = NoError /\ error' = NoError)
    /\ pc' = "raised" => error' # NoError

\* C15: every error raised in load_dump_to_db reaches the caller: no step
\* clears it and the call never returns normally after it.
C15_ErrorsReachCaller == [][ErrorPropagates]_vars

\* a store write error of the Insertion Pass has reached the caller
C15_Witness ==
    /\ pc = "raised"
    /\ error = Exception("StoreWriteError", "batch")
    /\ batch_no = 2


EntityTables == {"relation", "language", "label", "concept"}

\* C16: a second run over the same non-empty dump against the store the
\* first run filled ends either in an error or with more entity rows than
\* the first run left: it never returns with the store as it was.
C16_RerunNotIdempotent ==
    (first_result # <<>> /\ Len(Processed) >= 1 /\ pc \in {"returned", "raised"}) =>
        \/ pc = "raised"
        \/ \E tbl \in EntityTables : Len(committed[tbl]) > Len(first_result[1][tbl])

\* the second run was rejected by the store at its first row (the relation
\* name is already there) and left the rows of the first run
C16_Witness ==
    /\ first_result # <<>>
    /\ pc = "raised"
    /\ error = Exception("StoreWriteError", "batch")
    /\ ins_pos = 1
    /\ Len(committed.edge) = 2
    /\ committed = first_result[1]


Edge(r, s, e) == [relation_id |-> r, start_id |-> s, end_id |-> e]

\* C17: the three rows of the worked example, loaded into an empty store,
\* give 2 relations, 2 languages, 3 labels, 3 concepts and 3 edges, the
\* edges being (r1, a, b), (r1, a, x), (r2, b, a) in row order.
C17_WorkedExample ==
    (Succeeded /\ Processed = Example) =>
        /\ committed.relation = << <<"i","s","_","a">>,
                                   <<"p","a","r","t","_","o","f">> >>
        /\ Len(committed.language) = 2
        /\ Len(committed.label) = 3
        /\ Len(committed.concept) = 3
        /\ committed.edge = <<Edge(1, 1, 2), Edge(1, 1, 3), Edge(2, 2, 1)>>

\* the worked example was loaded in two transactions
C17_Witness ==
    /\ Succeeded
    /\ Processed = Example
    /\ edge_count_per_insert = 2
    /\ Len(committed.edge) = 3


\* C19: the uri rebuilt from a stored concept row is the identifier the
\* dump gave for it.
C19_UriRoundTrip ==
    \A uri \in DOMAIN index.concept :
        index.concept[uri] \in DOMAIN committed.concept =>
            ConceptUri(committed, index.concept[uri]) = uri


IsPrefix(q, full) == Len(q) <= Len(full) /\ q = SubSeq(full, 1, Len(q))
Count(q, x) == Cardinality({k \in DOMAIN q : q[k] = x})

\* C18: prepare_db calls, in this order and stopping at the first step that
\* ends it: load alone when the dump exists; load, extract, load when only
\* the archive exists; load, extract, download, extract, load when neither
\* exists. So it loads at most three times and downloads at most once.
C18_OnlyWhenNeeded ==
    prep.pc # "idle" =>
        /\ prep.dump0 => IsPrefix(prep.calls, <<"load">>)
        /\ (~prep.dump0 /\ prep.archive0) =>
              IsPrefix(prep.calls, <<"load", "extract", "load">>)
        /\ (~prep.dump0 /\ ~prep.archive0) =>
              IsPrefix(prep.calls, <<"load", "extract", "download", "extract", "load">>)
        /\ Count(prep.calls, "load") <= 3
        /\ Count(prep.calls, "download") <= 1

\* prepare_db returned after it downloaded, extracted and loaded
C18_Witness ==
    /\ prep.pc = "returned"
    /\ ~prep.dump0 /\ ~prep.archive0
    /\ prep.calls = <<"load", "extract", "download", "extract", "load">>


\* the ids of the edges that go from a concept of S to a concept of E
FromTo(S, E) == {e \in DOMAIN query.edges :
                    query.edges[e].start \in S /\ query.edges[e].end \in E}

\* C20: edges_between(S, E) returns exactly the edges that start in S and end
\* in E; with two_way it returns exactly those and the edges that start in E
\* and end in S.
C20_EdgesBetween ==
    query.pc = "done" =>
        query.result = IF query.two_way
                       THEN FromTo(query.start_concepts, query.end_concepts)
                            \cup FromTo(query.end_concepts, query.start_concepts)
                       ELSE FromTo(query.start_concepts, query.end_concepts)

\* a two-way call that returned an edge only because of the reverse direction,
\* and left another edge out
C20_Witness ==
    /\ query.pc = "done" /\ query.two_way
    /\ \E e \in query.result : e \notin FromTo(query.start_concepts, query.end_concepts)
    /\ query.result # DOMAIN query.edges


\* The Insertion Pass is running: its counters are set and nothing has raised
InsertionPass == pc \in {"while", "batch", "txn_exit"}

\* The seven lookups insert_objects_from_edge() makes for `row` from the
\* present state, in order: the namespace, the key, the id the index
\* returned, the counter it is compared with, and the keys of the namespace
\* that the same row looked up before.
Lookups(row) ==
    LET t0 == [store |-> store, i |-> ins_i, ok |-> TRUE]
        s == row.start_uri
        e == row.end_uri
        rel == insert_relation(t0, index, row.relation_uri)
        slang == insert_language(rel.t, index, s)
        slab == insert_label(slang.t, index, s, slang.id)
        scon == insert_concept_row(slab.t, index, s, slab.id)
        elang == insert_language(scon.t, index, e)
        elab == insert_label(elang.t, index, e, elang.id)
        econ == insert_concept_row(elab.t, index, e, elab.id)
        L(ns, key, id, before, seen) ==
            [ns |-> ns, key |-> key, id |-> id, counter |-> before.i[ns], seen |-> seen]
    IN  << L("relation", relation_in_bytes(row.relation_uri), rel.id, t0, {}),
           L("language", language_b(s), slang.id, rel.t, {}),
           L("label", label_language_b(s), slab.id, slang.t, {}),
           L("concept", concept_b(s), scon.id, slab.t, {}),
           L("language", language_b(e), elang.id, scon.t, {language_b(s)}),
           L("label", label_language_b(e), elab.id, elang.t, {label_language_b(s)}),
           L("concept", concept_b(e), econ.id, elab.t, {concept_b(s)}) >>

\* The key of a lookup was not looked up earlier in this pass
FirstInPass(l) ==
    l.key \notin Range(KeyStream(l.ns, SubSeq(dump, 1, ins_pos))) \cup l.seen

\* C21: during the Insertion Pass, each id the next row retrieves from the
\* Dedup Index is at most the counter of its namespace and equals it exactly
\* when the key is met for the first time in the pass; counter - 1 is the
\* number of rows of the namespace inserted so far; and when the pass is
\* over counter - 1 is the final counter of the Normalization Pass.
C21_CounterTracksFirstUse ==
    InsertionPass =>
        /\ \A ns \in Namespaces : ins_i[ns] - 1 = Len(store[ns])
        /\ HasNext(dump, edge_count, ins_pos) =>
              LET ls == Lookups(dump[ins_pos + 1])
              IN  \A k \in DOMAIN ls :
                     /\ ls[k].id <= ls[k].counter
                     /\ (ls[k].id = ls[k].counter) <=> FirstInPass(ls[k])
        /\ pc = "txn_exit" => \A ns \in Namespaces : ins_i[ns] - 1 = norm_i[ns]

\* the pass has inserted a row and the next row brings both a key it has
\* met and a key it has not; and a pass that ended with rows in every table
C21_Witness ==
    /\ pc = "batch"
    /\ ins_pos >= 1
    /\ HasNext(dump, edge_count, ins_pos)
    /\ LET ls == Lookups(dump[ins_pos + 1])
       IN  /\ \E k \in DOMAIN ls : ls[k].id < ls[k].counter
           /\ \E k \in DOMAIN ls : ls[k].id = ls[k].counter /\ ls[k].seen # {}


\* What the concept row with primary key id says, followed through its
\* label and language rows: language name, label text, sense label
EntityOf(tables, id) ==
    LET c == tables.concept[id]
        l == tables.label[c.label_id]
    IN  <<tables.language[l.language_id], l.text, c.sense_label>>

\* What a concept identifier names
Intended(uri) == <<split(uri, "/", 4)[3], split(uri, "/", 4)[4], sense_label(uri)>>

\* In `tables` the row whose primary key is the id the index holds for a key
\* is the row of that key, in all four namespaces, and every edge row points
\* at the relation and the concepts of its input row
KeysPointRight(tables) ==
    /\ \A ns \in {"relation", "language"} : \A key \in DOMAIN index[ns] :
          index[ns][key] \in DOMAIN tables[ns] => tables[ns][index[ns][key]] = key
    /\ \A uri \in Uris(SubSeq(dump, 1, norm_pos)) :
          LET id == index.label[label_language_b(uri)]
          IN  id \in DOMAIN tables.label =>
                 /\ tables.label[id].text = Intended(uri)[2]
                 /\ tables.language[tables.label[id].language_id] = Intended(uri)[1]
    /\ \A uri \in Uris(SubSeq(dump, 1, norm_pos)) :
          LET id == index.concept[concept_b(uri)]
          IN  id \in DOMAIN tables.concept => EntityOf(tables, id) = Intended(uri)
    /\ \A k \in DOMAIN tables.edge :
          /\ tables.relation[tables.edge[k].relation_id]
                = relation_in_bytes(dump[k].relation_uri)
          /\ EntityOf(tables, tables.edge[k].start_id) = Intended(dump[k].start_uri)
          /\ EntityOf(tables, tables.edge[k].end_id) = Intended(dump[k].end_uri)

\* C22: in a run into an empty store, at every commit point and inside every
\* batch, the primary key of each entity row is the id the Dedup Index holds
\* for its key, so the ids written into label, concept and edge rows point
\* at the rows of the intended entities.
C22_PrimaryKeysAreIndexIds ==
    KeysPointRight(committed) /\ KeysPointRight(store)

\* a second batch under way after a first one was committed, with a concept
\* whose label id and language id differ
C22_Witness ==
    /\ pc = "batch"
    /\ batch_no >= 2
    /\ Len(committed.edge) >= 1
    /\ Len(store.edge) > Len(committed.edge)
    /\ \E k \in DOMAIN committed.concept :
          committed.concept[k].label_id
             # committed.label[committed.concept[k].label_id].language_id


\* The call is over: it returned or raised
Over == pc \in {"returned", "raised"}

\* The rows the Insertion Pass is to read
CappedRows == Min(edge_count, Len(dump))

\* The reader of insert() moves forward one row at a time
ReadsOneByOne == ins_pos' \in {ins_pos, ins_pos + 1} \/ pc = "insert"

\* The block that ends the loop holds the n mod B rows left over; when there
\* are none it commits the store as it was
LastBlock ==
    (pc = "batch" /\ pc' = "while" /\ finished') =>
        /\ batch_n = CappedRows % edge_count_per_insert
        /\ batch_n = 0 => committed' = committed

\* C23: the batch loop terminates; when it has ended it has read each of
\* the n capped rows once and opened n div B + 1 transactions, the last of
\* them holding n mod B rows, so none when B divides n, and then its
\* commit leaves the store as it was.
C23_BatchLoopTerminates ==
    /\ [](pc = "txn_exit" =>
            /\ ins_pos = CappedRows
            /\ Len(store.edge) = CappedRows
            /\ batch_no = (CappedRows \div edge_count_per_insert) + 1)
    /\ [][ReadsOneByOne /\ LastBlock]_vars
    /\ (pc = "while" ~> Over)

\* a successful run over two rows in batches of two: a second, empty
\* transaction was opened and committed
C23_Witness ==
    /\ Succeeded
    /\ CappedRows = 2
    /\ edge_count_per_insert = 2
    /\ batch_no = 2
    /\ batch_n = 0


\* The download inside prepare_db succeeded: the second extraction was called
Downloaded == Count(prep.calls, "extract") = 2 \/ prep.pc = "extract2"

\* C24: when prepare_db has downloaded the archive, the file it downloaded
\* is the file the extraction reads, and the one the cleanup removes when
\* delete_compressed_dump is set, whatever dump_download_url is.
C24_DownloadedArchiveIsUsed ==
    (prep.pc # "idle" /\ Downloaded) =>
        /\ prep.pc = "extract2" => prep.archive
        /\ (prep.pc \in {"returned", "raised"} /\ prep.delete_compressed_dump) =>
              ~prep.archive /\ ~prep.other


\* C25: with edges_count = N the reader of ConceptNet.load_dump_to_db yields
\* the first min(N, number of rows) rows of the dump and no more, the same
\* rows as the reader of db.load_dump_to_db.
C25_OrmReaderHonoursCap ==
    (query.pc = "reading" /\ query.orm.done) =>
        /\ query.orm.out = SubSeq(query.rows, 1, Min(query.count, Len(query.rows)))
        /\ query.db.done => query.orm.out = query.db.out


\* The two ends of an edge of the queried database are in one language
SameLanguage(e) ==
    query.language[query.edges[e].start] = query.language[query.edges[e].end]

\* C26: edges_from(C, same_language) returns only edges that start in C and
\* edges_to(C, same_language) only edges that end in C, all of them within
\* one language when same_language is set, and edges_for(C, same_language)
\* is the union of the two.
C26_EdgesForIsUnion ==
    (query.pc = "edges" /\ query.asked = {"from", "to", "for"}) =>
        /\ \A e \in query.from : query.edges[e].start \in query.concepts
        /\ \A e \in query.to : query.edges[e].end \in query.concepts
        /\ query.same_language => \A e \in query.from \cup query.to : SameLanguage(e)
        /\ query.for = query.from \cup query.to

====
